---- MODULE Spec2Model ----
(***************************************************************************)
(* A model of the repository's four programs:                              *)
(*   - test_folder/gurt.py               the Flask application: its User   *)
(*                                       table and the login, register and *)
(*                                       logout handlers;                  *)
(*   - test_folder/databases/write_db.py write(): one row of the master    *)
(*                                       table (models.py), hashed with    *)
(*                                       enc_test.hasher;                  *)
(*   - test_folder/gurt2.py              the key-derivation and Fernet     *)
(*                                       script, statement by statement;   *)
(*   - Fernet encrypt/decrypt, the cipher gurt2.py calls, as pure          *)
(*     functions applied to inputs drawn from bounded sets.                *)
(* Each program has its own specification (SpecWeb, SpecMaster, SpecScript,*)
(* SpecCipher, ...); the variables of the other programs stay at their     *)
(* idle values.                                                            *)
(***************************************************************************)
EXTENDS Naturals, Integers, Sequences, FiniteSets, TLC

VARIABLES
  \* ---- gurt.py
  users,          \* the user table: a sequence of rows in id order
  current_user,   \* flask_login's current_user of the one client: 0 = anonymous
  resp,           \* the response of the last request
  lastReq,        \* the last request handled (handler, method, form fields)
  registered,     \* history: user id -> the password given at registration
  friendships,    \* the friendship table: a sequence of rows in id order
  routes,         \* the route table: a set of rows
  \* ---- write_db.py / models.py
  master,         \* the master table: a sequence of rows in id order
  writeResult,    \* how the last run of write() ended
  tables,         \* the tables the database file holds
  createPc,       \* the line create_db.py is about to execute ("done": not running)
  \* ---- gurt2.py
  pc,             \* the line the script is about to execute
  master_password, password, salt, key, f, token,
  stdout,         \* what the script has printed so far
  earlier,        \* the password, key and token of the run of the script before this one
  \* ---- the passwords table of models.py
  passwords,      \* the rows of the table, a set
  issued,         \* history: the ids given to rows since the table was created
  \* ---- Fernet applied to drawn inputs
  cKey, cMsg, cToken, cOut, cTampered

webVars    == <<users, current_user, resp, lastReq, registered>>
masterVars == <<master, writeResult, tables, createPc>>
scriptVars == <<pc, master_password, password, salt, key, f, token, stdout>>
cipherVars == <<cKey, cMsg, cToken, cOut, cTampered>>
runVars    == <<earlier>>
storeVars  == <<passwords, issued>>
dashVars   == <<friendships, routes>>
vars       == <<webVars, masterVars, scriptVars, cipherVars, runVars, storeVars, dashVars>>

None == "None"

\* ------------------------------------------------------------------ bounds
\* How many distinct passwords are typed, and how many distinct values the
\* random salt sources return.
NumPasswords == 2
NumSalts == 2

\* Strings a form field or a prompt may carry: a username field and an email
\* field draw from the same set, as nothing in the code keeps them apart. The
\* unique columns keep a table to one row per string.
Idents == {"alice", "a@x.com"}
\* Passwords, as codes of the strings typed.
Passwords == 1..NumPasswords
\* The salts werkzeug's gen_salt and os.urandom may return.
Salts == 1..NumSalts

\* ------------------------------------------------------------------ gurt.py
\* werkzeug's _hash_internal: the digest of a password under a salt. A
\* collision-free stand-in: distinct (salt, password) give distinct digests.
HashInternal(s, p) == 16 * p + s

\* werkzeug.security.generate_password_hash with the salt gen_salt drew:
\* "method$salt$hash".
generate_password_hash(p, s) == [salt |-> s, hashval |-> HashInternal(s, p)]

\* A check_password_hash that compares only the part of the digest the salt
\* decides: any password passes.
check_password_hash_truncated(pwhash, p) ==
  HashInternal(pwhash.salt, p) % 16 = pwhash.hashval % 16

\* werkzeug.security.check_password_hash: the digest of the supplied password
\* under the stored salt, compared with the stored digest.
check_password_hash(pwhash, p) == HashInternal(pwhash.salt, p) = pwhash.hashval

\* User.check_password
check_password(user, p) == check_password_hash(user.password_hash, p)

\* User.set_password, on a row being built.
set_password(user, p, s) ==
  [user EXCEPT !.password_hash = generate_password_hash(p, s)]

Rows(table) == {table[i] : i \in 1..Len(table)}

\* login's query: User.query.filter(or_(User.username == username,
\* User.email == username)). first() has no ORDER BY, so any matching row may
\* be the one returned.
LoginMatches(username) ==
  {u \in Rows(users) : u.username = username \/ u.email = username}

\* register's query: (User.username == username) | (User.email == email).
user_exists(username, email) ==
  \E u \in Rows(users) : u.username = username \/ u.email = email

is_authenticated == current_user # 0

\* What first() returns when no row matches (Python's None).
NoUser == [id |-> 0, username |-> "", email |-> "",
           password_hash |-> [salt |-> 0, hashval |-> 0]]

Redirect(target, msg) == [kind |-> "redirect", target |-> target, flash |-> msg]
Render(template, msg) == [kind |-> "render", target |-> template, flash |-> msg]

FlashInvalid == "Invalid username or password"
FlashNoMatch == "Passwords do not match"
FlashExists  == "Username or email already exists"
FlashCreated == "Account created successfully! You can now log in."
FlashLoggedOut == "You have been logged out."
FlashPleaseLogIn == "Please log in to access this page."

\* What the query string of a login request may carry as next: nothing, a
\* page of the application (where flask_login sends a refused client from),
\* or any other URL; login does not look at the value.
NoNext == ""
NextPages == {NoNext, "/logbook", "https://evil.example/"}

\* redirect(next_page or url_for('dashboard'))
NextOrDashboard(next_page) == IF next_page # NoNext THEN next_page ELSE "dashboard"

Req(handler, method, username, email, pw, confirm) ==
  [handler |-> handler, method |-> method, username |-> username,
   email |-> email, password |-> pw, confirm_password |-> confirm,
   next |-> NoNext]

\* A login that tells an unknown user from a wrong password.
LoginOutcomeEnumerating(user, pw, next_page) ==
  IF user # NoUser /\ check_password(user, pw)
    THEN [current |-> user.id, resp |-> Redirect(NextOrDashboard(next_page), "")]
  ELSE IF user = NoUser
    THEN [current |-> current_user, resp |-> Render("login.html", "No such user")]
  ELSE [current |-> current_user, resp |-> Render("login.html", "Wrong password")]

\* What login answers to a POST with ?next=next_page once first() has returned
\* `user` (NoUser: no row matched): the new current_user and the response.
LoginOutcome(user, pw, next_page) ==
  IF user # NoUser /\ check_password(user, pw)
    THEN [current |-> user.id, resp |-> Redirect(NextOrDashboard(next_page), "")]
    ELSE [current |-> current_user, resp |-> Render("login.html", FlashInvalid)]

\* login(), GET
LoginGet ==
  /\ lastReq' = Req("login", "GET", "", "", 0, 0)
  /\ resp' = IF is_authenticated THEN Redirect("dashboard", "")
                                 ELSE Render("login.html", "")
  /\ UNCHANGED <<users, current_user, registered>>

\* login(), POST
LoginPost ==
  \E username \in Idents, pw \in Passwords, next_page \in NextPages :
    /\ lastReq' = [Req("login", "POST", username, "", pw, 0)
                     EXCEPT !.next = next_page]
    /\ IF is_authenticated
         THEN /\ resp' = Redirect("dashboard", "")
              /\ UNCHANGED current_user
         ELSE \E user \in (IF LoginMatches(username) = {} THEN {NoUser}
                                                          ELSE LoginMatches(username)) :
                /\ current_user' = LoginOutcome(user, pw, next_page).current
                /\ resp' = LoginOutcome(user, pw, next_page).resp
    /\ UNCHANGED <<users, registered>>

\* register(), GET
RegisterGet ==
  /\ lastReq' = Req("register", "GET", "", "", 0, 0)
  /\ resp' = IF is_authenticated THEN Redirect("dashboard", "")
                                 ELSE Render("register.html", "")
  /\ UNCHANGED <<users, current_user, registered>>

\* The row register() adds: the next id of the table, the form's username and
\* email, and the hash set_password computes.
NewUser(username, email, pw, s) ==
  set_password([id |-> Len(users) + 1, username |-> username,
                email |-> email, password_hash |-> None], pw, s)

\* What register answers to a POST by an anonymous client: the new table and
\* the response.
RegisterOutcome(username, email, pw, confirm, s) ==
  IF pw # confirm
    THEN [users |-> users, resp |-> Render("register.html", FlashNoMatch)]
  ELSE IF user_exists(username, email)
    THEN [users |-> users, resp |-> Render("register.html", FlashExists)]
  ELSE [users |-> Append(users, NewUser(username, email, pw, s)),
        resp |-> Redirect("login", FlashCreated)]

\* register(), POST
RegisterPost ==
  \E username \in Idents, email \in Idents, pw \in Passwords,
     confirm \in Passwords, s \in Salts :
    /\ lastReq' = Req("register", "POST", username, email, pw, confirm)
    /\ IF is_authenticated
         THEN /\ resp' = Redirect("dashboard", "")
              /\ UNCHANGED <<users, registered>>
         ELSE LET out == RegisterOutcome(username, email, pw, confirm, s) IN
              /\ users' = out.users
              /\ resp' = out.resp
              /\ registered' = IF out.users = users THEN registered
                               ELSE registered @@ (Len(out.users) :> pw)
    /\ UNCHANGED current_user

\* logout(), behind @login_required
Logout ==
  /\ lastReq' = Req("logout", "GET", "", "", 0, 0)
  /\ IF is_authenticated
       THEN /\ current_user' = 0
            /\ resp' = Redirect("index", FlashLoggedOut)
       ELSE /\ resp' = Redirect("login", FlashPleaseLogIn)
            /\ UNCHANGED current_user
  /\ UNCHANGED <<users, registered>>

InitWebVars ==
  /\ users = <<>>
  /\ current_user = 0
  /\ resp = Render("index.html", "")
  /\ lastReq = Req("index", "GET", "", "", 0, 0)
  /\ registered = <<>>

NextWeb ==
  \/ LoginGet /\ UNCHANGED <<masterVars, scriptVars, cipherVars, runVars, storeVars, dashVars>>
  \/ LoginPost /\ UNCHANGED <<masterVars, scriptVars, cipherVars, runVars, storeVars, dashVars>>
  \/ RegisterGet /\ UNCHANGED <<masterVars, scriptVars, cipherVars, runVars, storeVars, dashVars>>
  \/ RegisterPost /\ UNCHANGED <<masterVars, scriptVars, cipherVars, runVars, storeVars, dashVars>>
  \/ Logout /\ UNCHANGED <<masterVars, scriptVars, cipherVars, runVars, storeVars, dashVars>>


\* ------------------------------------------- databases/write_db.py, models.py
\* enc_test.hasher: hashlib.sha512(passw.encode()).hexdigest(), with no salt.
\* A collision-free stand-in: distinct passwords give distinct digests.
hasher(passw) == 1000 + 7 * passw

\* A master table whose email column is not unique.
MasterUniqueUsernameOnly(row) ==
  \E m \in Rows(master) : m.username = row.username

\* models.Master: username and email are declared unique=True, so the commit
\* of a row that repeats either raises IntegrityError.
MasterUniqueViolated(row) ==
  \E m \in Rows(master) : m.username = row.username \/ m.email = row.email

Run(program, username, email, pw, outcome) ==
  [program |-> program, username |-> username, email |-> email,
   password |-> pw, outcome |-> outcome]

\* The table after write() has added `row` and committed, and how the commit
\* ended: OperationalError (no such table: master) where the file has no
\* master table.
WriteOutcome(row) ==
  IF "master" \notin tables
    THEN [master |-> master, outcome |-> "OperationalError"]
  ELSE IF MasterUniqueViolated(row)
    THEN [master |-> master, outcome |-> "IntegrityError"]
    ELSE [master |-> Append(master, row), outcome |-> "committed"]

\* write_db.write: the three prompts, hasher, session.add, session.commit.
write ==
  \E username_1 \in Idents, email_1 \in Idents, password_1 \in Passwords :
    LET hashed_pass == hasher(password_1)
        user == [id |-> Len(master) + 1, username |-> username_1,
                 email |-> email_1, hash_pass |-> hashed_pass]
        out == WriteOutcome(user)
    IN /\ master' = out.master
       /\ writeResult' = Run("write_db", username_1, email_1, password_1, out.outcome)
       /\ UNCHANGED <<tables, createPc>>

ModelTables == {"master", "passwords"}

\* create_db.py lines 5-6, Base.metadata.drop_all(engine): one DROP TABLE for
\* each table the file holds, the dependent-last order of the metadata
\* reversed (passwords, then master), each committed on its own.
drop_all_passwords ==
  /\ createPc = "done"
  /\ tables' = tables \ {"passwords"}
  /\ passwords' = {}
  /\ issued' = {}
  /\ writeResult' = Run("create_db", "", "", 0, "DROP TABLE passwords")
  /\ createPc' = "l6_master"
  /\ UNCHANGED master

drop_all_master ==
  /\ createPc = "l6_master"
  /\ tables' = tables \ {"master"}
  /\ master' = <<>>
  /\ writeResult' = Run("create_db", "", "", 0, "DROP TABLE master")
  /\ createPc' = "l7"
  /\ UNCHANGED <<passwords, issued>>

\* create_db.py line 7, Base.metadata.create_all(engine): one CREATE TABLE
\* for each table of models.py the file does not hold (master, then
\* passwords), each committed on its own. A new table is empty and its ids
\* start again.
create_all_master ==
  /\ createPc = "l7"
  /\ tables' = tables \cup {"master"}
  /\ writeResult' = Run("create_db", "", "", 0, "CREATE TABLE master")
  /\ createPc' = "l7_passwords"
  /\ UNCHANGED <<master, passwords, issued>>

create_all_passwords ==
  /\ createPc = "l7_passwords"
  /\ tables' = tables \cup {"passwords"}
  /\ writeResult' = Run("create_db", "", "", 0, "created")
  /\ createPc' = "done"
  /\ UNCHANGED <<master, passwords, issued>>

InitMasterVars ==
  /\ master = <<>>
  /\ writeResult = Run("create_db", "", "", 0, "created")
  /\ tables = ModelTables
  /\ createPc = "done"

NextMaster ==
  \/ write /\ UNCHANGED <<webVars, scriptVars, cipherVars, runVars, storeVars, dashVars>>
  \/ drop_all_passwords /\ UNCHANGED <<webVars, scriptVars, cipherVars, runVars, dashVars>>
  \/ drop_all_master /\ UNCHANGED <<webVars, scriptVars, cipherVars, runVars, dashVars>>
  \/ create_all_master /\ UNCHANGED <<webVars, scriptVars, cipherVars, runVars, dashVars>>
  \/ create_all_passwords /\ UNCHANGED <<webVars, scriptVars, cipherVars, runVars, dashVars>>

\* ------------------------------------- databases/models.py, the passwords table
\* The repository declares the table and creates it in SQLite (create_db.py);
\* no program of the repository writes it. insert and delete below are the
\* engine's INSERT and DELETE on the table as declared, while the file holds
\* the table.
MaxEntryId == 3

Apps == {"mail", "bank"}
Emails == {None, "a@x.com"}

Max(S) == CHOOSE x \in S : \A y \in S : y <= x

RowIds(rows) == {r.id : r \in rows}

\* models.py line 20: an integer primary key with autoincrement=True, and no
\* sqlite_autoincrement on the table, is created as INTEGER NOT NULL PRIMARY
\* KEY: the rowid, which SQLite sets to one more than the largest id now in
\* the table.
NextId(rows) ==
  IF rows = {} THEN 1 ELSE Max(RowIds(rows)) + 1

PasswordRow(id_1, app_1, email_1) ==
  [id |-> id_1, app |-> app_1, email |-> email_1, phone_number |-> None,
   username |-> "alice", enc_pass |-> "enc"]

insert ==
  \E app_1 \in Apps, email_1 \in Emails :
    LET id_1 == NextId(passwords)
    IN /\ "passwords" \in tables
       /\ id_1 <= MaxEntryId
       /\ passwords' = passwords \cup {PasswordRow(id_1, app_1, email_1)}
       /\ issued' = issued \cup {id_1}

delete ==
  \E r \in passwords :
    /\ passwords' = passwords \ {r}
    /\ UNCHANGED issued

InitStoreVars == passwords = {} /\ issued = {}

NextStore ==
  \/ insert /\ UNCHANGED <<webVars, masterVars, scriptVars, cipherVars, runVars, dashVars>>
  \/ delete /\ UNCHANGED <<webVars, masterVars, scriptVars, cipherVars, runVars, dashVars>>
  \/ drop_all_passwords /\ UNCHANGED <<webVars, scriptVars, cipherVars, runVars, dashVars>>
  \/ drop_all_master /\ UNCHANGED <<webVars, scriptVars, cipherVars, runVars, dashVars>>
  \/ create_all_master /\ UNCHANGED <<webVars, scriptVars, cipherVars, runVars, dashVars>>
  \/ create_all_passwords /\ UNCHANGED <<webVars, scriptVars, cipherVars, runVars, dashVars>>

\* ------------------------------------------------- cryptography, as gurt2.py uses it
\* Byte strings are numbers: a 32-byte key is its first 16 bytes and its last
\* 16 bytes, each a number; a padded block is 0..7.

\* gurt2.py line 15
Iterations == 1200000

\* b"Secret message!", as the code of that byte string (gurt2.py line 19).
SecretMessage == 2

\* The plaintexts, initialisation vectors and clock readings drawn.
Msgs == 0..3
IVs == 0..2
Times == 0..1

\* The blocks: four times as many as there are plaintexts, so that one block
\* in four is validly padded.
BlockSpace == 4 * Cardinality(Msgs)

\* bytes(master_password, "utf-8")
Utf8(str) == [bytes |-> str]

\* The number of the input (password, salt, iteration count) among all
\* inputs: distinct inputs have distinct numbers.
KdfInput(pw, s, iterations) ==
  (iterations * (NumPasswords + 2) + pw.bytes) * (NumSalts + 2) + s

\* PBKDF2HMAC(SHA256, length=32, salt, iterations).derive(password): a
\* function of the password, the salt and the iteration count alone, and a
\* collision-free one: no two inputs share a half of their outputs, and no
\* output has its two halves equal.
Pbkdf2Derive(pw, s, iterations) ==
  [first16 |-> 2 * KdfInput(pw, s, iterations),
   last16 |-> 2 * KdfInput(pw, s, iterations) + 1]

\* base64.urlsafe_b64encode and urlsafe_b64decode
urlsafe_b64encode(raw) == [b64 |-> raw]
urlsafe_b64decode(txt) == txt.b64

\* Fernet(key): the decoded key split into signing and encryption halves.
Fernet(k) ==
  [signing_key |-> urlsafe_b64decode(k).first16,
   encryption_key |-> urlsafe_b64decode(k).last16]

\* PKCS7 padding: the padded blocks are the multiples of four, and unpadding
\* anything else is an error.
Pad(m) == 4 * m
PaddingOk(x) == x % 4 = 0
Unpad(x) == x \div 4

\* AES in CBC mode under the encryption half k: the block is shifted by the
\* IV and enciphered under k. The ciphertexts of different keys are different
\* numbers: the key's multiple of BlockSpace plus the shifted block.
AesCbcEncrypt(k, iv, x) == (BlockSpace * k) + ((x + iv) % BlockSpace)

\* What deciphering under the key k adds to a block b enciphered under another
\* key kc: never nothing, and otherwise scattered over the blocks by both
\* keys and by the block itself.
WrongKeyOffset(k, kc, b) ==
  1 + (((3 * ((k \div 2) % (BlockSpace - 1)) + 3 * b + 1)
          * (((kc \div 2) % (BlockSpace - 1)) + 2 * b)) % (BlockSpace - 1))

\* Under the right key the block comes back, shifted by the difference of the
\* IVs when the IV is another. Under another key an unrelated block comes
\* out, never the block that was enciphered: for every pair of keys it is
\* validly padded for some ciphertexts and IVs, and not for most.
AesCbcDecrypt(k, iv, c) ==
  LET b == c % BlockSpace
      kc == c \div BlockSpace
  IN IF kc = k
       THEN (b + BlockSpace - iv) % BlockSpace
       ELSE (b + WrongKeyOffset(k, kc, b) + BlockSpace - iv) % BlockSpace

\* HMAC-SHA256 under the signing half over version || timestamp || iv ||
\* ciphertext: an ideal MAC, equal only for equal key and equal data. The 32
\* tag bytes are the MAC with a mask of flipped bits (0 as HMAC returns it): a
\* valid MAC with bits flipped is the valid MAC of nothing.
Hmac(sk, version, ts, iv, ct) ==
  [mac |-> <<sk, version, ts, iv, ct>>, flipped |-> 0]

FernetVersion == 128

\* Fernet.encrypt at clock reading ts, with the IV os.urandom(16) returned.
FernetEncrypt(fk, m, ts, iv) ==
  LET ct == AesCbcEncrypt(fk.encryption_key, iv, Pad(m)) IN
  [version |-> FernetVersion, timestamp |-> ts, iv |-> iv, ciphertext |-> ct,
   hmac |-> Hmac(fk.signing_key, FernetVersion, ts, iv, ct)]

InvalidToken == [raised |-> "InvalidToken"]

\* A signature check whose MAC covers the header and the IV but not the
\* ciphertext.
VerifySignatureHeaderOnly(fk, tok) ==
  /\ tok.hmac.flipped = 0
  /\ SubSeq(tok.hmac.mac, 1, 4) = <<fk.signing_key, tok.version, tok.timestamp, tok.iv>>

\* Fernet._verify_signature
VerifySignature(fk, tok) ==
  tok.hmac = Hmac(fk.signing_key, tok.version, tok.timestamp, tok.iv, tok.ciphertext)

\* Fernet.decrypt with no ttl: the version byte, the signature, then the
\* decryption and the unpadding; each failure raises InvalidToken.
FernetDecrypt(fk, tok) ==
  IF tok.version # FernetVersion THEN InvalidToken
  ELSE IF ~VerifySignature(fk, tok) THEN InvalidToken
  ELSE LET x == AesCbcDecrypt(fk.encryption_key, tok.iv, tok.ciphertext) IN
       IF PaddingOk(x) THEN [plaintext |-> Unpad(x)] ELSE InvalidToken

\* ------------------------------------------------------------------ gurt2.py
NoValue == [unset |-> TRUE]

Prompt == [prompt |-> "Enter the master password: "]

\* line 7, input(...): the prompt is written and flushed before anything is
\* read: to standard output when the script does not run on a terminal, to
\* the terminal's standard error when it does. The script then waits for a
\* line.
Line7Prompt ==
  /\ pc = "l7"
  /\ \E on_terminal \in BOOLEAN :
       stdout' = IF on_terminal THEN stdout ELSE Append(stdout, Prompt)
  /\ pc' = "l7_read"
  /\ UNCHANGED <<master_password, password, salt, key, f, token>>

\* line 7, master_password = str(input(...)): the line typed is bound. With
\* nothing to read input raises EOFError and the script ends there.
Line7Read ==
  /\ pc = "l7_read"
  /\ \E at_eof \in BOOLEAN :
       IF at_eof
         THEN pc' = "crashed" /\ UNCHANGED master_password
         ELSE pc' = "l8" /\ \E typed \in Passwords : master_password' = typed
  /\ UNCHANGED <<password, salt, key, f, token, stdout>>

\* line 8: password = bytes(master_password, "utf-8")
Line8 ==
  /\ pc = "l8"
  /\ password' = Utf8(master_password)
  /\ pc' = "l10"
  /\ UNCHANGED <<master_password, salt, key, f, token, stdout>>

\* line 10: salt = os.urandom(16)
Line10 ==
  /\ pc = "l10"
  /\ \E s \in Salts : salt' = s
  /\ pc' = "l17"
  /\ UNCHANGED <<master_password, password, key, f, token, stdout>>

\* lines 11-17: kdf = PBKDF2HMAC(...); key = urlsafe_b64encode(kdf.derive(password))
Line17 ==
  /\ pc = "l17"
  /\ key' = urlsafe_b64encode(Pbkdf2Derive(password, salt, Iterations))
  /\ pc' = "l18"
  /\ UNCHANGED <<master_password, password, salt, f, token, stdout>>

\* line 18: f = Fernet(key)
Line18 ==
  /\ pc = "l18"
  /\ f' = Fernet(key)
  /\ pc' = "l19"
  /\ UNCHANGED <<master_password, password, salt, key, token, stdout>>

\* line 19: token = f.encrypt(b"Secret message!")
Line19 ==
  /\ pc = "l19"
  /\ \E ts \in Times, iv \in IVs : token' = FernetEncrypt(f, SecretMessage, ts, iv)
  /\ pc' = "l21"
  /\ UNCHANGED <<master_password, password, salt, key, f, stdout>>

\* What each print statement of lines 21-27 writes.
Printed(line) ==
  CASE line = "l21" -> [text |-> ""]
    [] line = "l22" -> [bytes |-> key]
    [] line = "l23" -> [repr |-> "<cryptography.fernet.Fernet object>"]
    [] line = "l24" -> [bytes |-> token]
    [] line = "l25" -> [bytes |-> FernetDecrypt(f, token).plaintext]
    [] line = "l26" -> [type |-> "Fernet"]
    [] line = "l27" -> [type |-> "bytes"]

AfterPrint(line) ==
  CASE line = "l21" -> "l22" [] line = "l22" -> "l23" [] line = "l23" -> "l24"
    [] line = "l24" -> "l25" [] line = "l25" -> "l26" [] line = "l26" -> "l27"
    [] line = "l27" -> "done"

\* lines 21-27: the prints. f.decrypt raising InvalidToken at line 25 would
\* end the script there with a traceback.
Lines21to27 ==
  /\ pc \in {"l21", "l22", "l23", "l24", "l25", "l26", "l27"}
  /\ IF pc = "l25" /\ FernetDecrypt(f, token) = InvalidToken
       THEN /\ stdout' = stdout
            /\ pc' = "crashed"
       ELSE /\ stdout' = Append(stdout, Printed(pc))
            /\ pc' = AfterPrint(pc)
  /\ UNCHANGED <<master_password, password, salt, key, f, token>>

InitScriptVars ==
  /\ pc = "l7"
  /\ master_password = NoValue
  /\ password = NoValue
  /\ salt = NoValue
  /\ key = NoValue
  /\ f = NoValue
  /\ token = NoValue
  /\ stdout = <<>>

NextScript ==
  \/ Line7Prompt /\ UNCHANGED <<webVars, masterVars, cipherVars, runVars, storeVars, dashVars>>
  \/ Line7Read /\ UNCHANGED <<webVars, masterVars, cipherVars, runVars, storeVars, dashVars>>
  \/ Line8 /\ UNCHANGED <<webVars, masterVars, cipherVars, runVars, storeVars, dashVars>>
  \/ Line10 /\ UNCHANGED <<webVars, masterVars, cipherVars, runVars, storeVars, dashVars>>
  \/ Line17 /\ UNCHANGED <<webVars, masterVars, cipherVars, runVars, storeVars, dashVars>>
  \/ Line18 /\ UNCHANGED <<webVars, masterVars, cipherVars, runVars, storeVars, dashVars>>
  \/ Line19 /\ UNCHANGED <<webVars, masterVars, cipherVars, runVars, storeVars, dashVars>>
  \/ Lines21to27 /\ UNCHANGED <<webVars, masterVars, cipherVars, runVars, storeVars, dashVars>>


\* gurt2.py is run again after a run that ended: a new process, whose names
\* are unbound again. Nothing of the run before is kept by the code; earlier
\* records what that run typed, derived and printed.
Rerun ==
  /\ pc = "done"
  /\ earlier' = [master_password |-> master_password, salt |-> salt,
                 key |-> key, token |-> token]
  /\ pc' = "l7"
  /\ master_password' = NoValue
  /\ password' = NoValue
  /\ salt' = NoValue
  /\ key' = NoValue
  /\ f' = NoValue
  /\ token' = NoValue
  /\ stdout' = <<>>

NextRuns ==
  \/ NextScript
  \/ Rerun /\ UNCHANGED <<webVars, masterVars, cipherVars, storeVars, dashVars>>

\* ------------------------------------------- Fernet applied to drawn inputs
\* The keys gurt2.py can derive.
Keys == {urlsafe_b64encode(Pbkdf2Derive(Utf8(p), s, Iterations)) :
           p \in Passwords, s \in Salts}

\* Every 32-byte key put together from the first half of one derived key and
\* the last half of another: the derived keys themselves, and keys that share
\* one half with them.
OpenKeys ==
  {urlsafe_b64encode([first16 |-> urlsafe_b64decode(a).first16,
                      last16 |-> urlsafe_b64decode(b).last16]) :
     a \in Keys, b \in Keys}

\* x with bit b flipped
FlipBit(x, b) == IF (x \div (2 ^ b)) % 2 = 1 THEN x - 2 ^ b ELSE x + 2 ^ b

CtBits == 0..2
TagBits == 0..1
IvBits == 1..2

NotOpened == [opened |-> FALSE]

\* token = Fernet(cKey).encrypt(cMsg)
Seal ==
  /\ cToken = NoValue
  /\ \E ts \in Times, iv \in IVs :
       cToken' = FernetEncrypt(Fernet(cKey), cMsg, ts, iv)
  /\ cTampered' = cToken'
  /\ UNCHANGED <<cKey, cMsg, cOut>>

\* One bit of the token's ciphertext is flipped.
FlipCiphertextBit ==
  /\ cToken # NoValue
  /\ \E b \in CtBits :
       cTampered' = [cTampered EXCEPT !.ciphertext = FlipBit(@, b)]
  /\ cOut' = NotOpened
  /\ UNCHANGED <<cKey, cMsg, cToken>>

\* One bit of the token's tag is flipped.
FlipTagBit ==
  /\ cToken # NoValue
  /\ \E b \in TagBits :
       cTampered' = [cTampered EXCEPT !.hmac.flipped = FlipBit(@, b)]
  /\ cOut' = NotOpened
  /\ UNCHANGED <<cKey, cMsg, cToken>>

\* One bit of the token's IV is flipped.
FlipIvBit ==
  /\ cToken # NoValue
  /\ \E b \in IvBits :
       cTampered' = [cTampered EXCEPT !.iv = FlipBit(@, b)]
  /\ cOut' = NotOpened
  /\ UNCHANGED <<cKey, cMsg, cToken>>

\* Fernet(k).decrypt of the token as it now stands, under any key: one call
\* for each state of the token.
Open ==
  /\ cToken # NoValue
  /\ cOut = NotOpened
  /\ \E k \in OpenKeys :
       cOut' = [opened |-> TRUE, key |-> k,
                result |-> FernetDecrypt(Fernet(k), cTampered)]
  /\ UNCHANGED <<cKey, cMsg, cToken, cTampered>>

InitCipherVars ==
  /\ cKey \in Keys
  /\ cMsg \in Msgs
  /\ cToken = NoValue
  /\ cTampered = NoValue
  /\ cOut = NotOpened

NextCipher ==
  \/ Seal /\ UNCHANGED <<webVars, masterVars, scriptVars, runVars, storeVars, dashVars>>
  \/ FlipCiphertextBit /\ UNCHANGED <<webVars, masterVars, scriptVars, runVars, storeVars, dashVars>>
  \/ FlipTagBit /\ UNCHANGED <<webVars, masterVars, scriptVars, runVars, storeVars, dashVars>>
  \/ FlipIvBit /\ UNCHANGED <<webVars, masterVars, scriptVars, runVars, storeVars, dashVars>>
  \/ Open /\ UNCHANGED <<webVars, masterVars, scriptVars, runVars, storeVars, dashVars>>

\* ------------------------------------------- gurt.py, friendships and routes
MaxFriendships == 3

\* The users of the dashboard: the table after two registrations.
DashUsers ==
  <<set_password([id |-> 1, username |-> "alice", email |-> "a@x.com",
                  password_hash |-> None], 1, 1),
    set_password([id |-> 2, username |-> "a@x.com", email |-> "alice",
                  password_hash |-> None], 2, 1)>>

\* A request to a handler that takes an id in its URL.
DashReq(handler, method, arg) ==
  [handler |-> handler, method |-> method, arg |-> arg]

Jsonify(status, message) == [kind |-> "json", status |-> status, message |-> message]
NotFound404 == [kind |-> "abort", status |-> 404]

\* @login_required refusing an anonymous client: login_manager.login_view.
Unauthorized == Redirect("login", FlashPleaseLogIn)

\* The ids a URL may carry for a table that holds n rows: every id in the
\* table and one that is not.
UrlIds(n) == 1..(n + 1)

\* add_friend's query: a row between the two users, in either direction.
existing(user_id) ==
  \E fr \in Rows(friendships) :
    \/ fr.user_id = current_user /\ fr.friend_id = user_id
    \/ fr.user_id = user_id /\ fr.friend_id = current_user

Friendship(user_id, friend_id, status) ==
  [id |-> Len(friendships) + 1, user_id |-> user_id, friend_id |-> friend_id,
   status |-> status]

\* A check that lets the sender of a request through as well.
not_recipient_nor_sender(request) ==
  request.friend_id # current_user /\ request.user_id # current_user

\* accept_friend, reject_friend: request.friend_id != current_user.id
not_recipient(request) == request.friend_id # current_user

\* add_friend(user_id), POST, behind @login_required
add_friend ==
  \E user_id \in UrlIds(Len(users)) :
    /\ lastReq' = DashReq("add_friend", "POST", user_id)
    /\ IF ~is_authenticated
         THEN resp' = Unauthorized /\ UNCHANGED friendships
       ELSE IF user_id = current_user
         THEN /\ resp' = Jsonify("error", "Cannot add yourself as a friend")
              /\ UNCHANGED friendships
       ELSE IF existing(user_id)
         THEN /\ resp' = Jsonify("error", "Friend request already exists")
              /\ UNCHANGED friendships
       ELSE /\ Len(friendships) < MaxFriendships
            /\ friendships' = Append(friendships,
                                     Friendship(current_user, user_id, "pending"))
            /\ resp' = Jsonify("success", "Friend request sent")
    /\ UNCHANGED <<users, current_user, registered, routes>>

\* accept_friend(request_id), POST, behind @login_required
accept_friend ==
  \E request_id \in UrlIds(Len(friendships)) :
    /\ lastReq' = DashReq("accept_friend", "POST", request_id)
    /\ IF ~is_authenticated
         THEN resp' = Unauthorized /\ UNCHANGED friendships
       ELSE IF request_id > Len(friendships)
         THEN resp' = NotFound404 /\ UNCHANGED friendships
       ELSE IF not_recipient(friendships[request_id])
         THEN /\ resp' = Jsonify("error", "Not authorized")
              /\ UNCHANGED friendships
       ELSE /\ Len(friendships) < MaxFriendships
            /\ friendships' =
                 Append([friendships EXCEPT ![request_id].status = "accepted"],
                        Friendship(current_user, friendships[request_id].user_id,
                                   "accepted"))
            /\ resp' = Jsonify("success", "Friend request accepted")
    /\ UNCHANGED <<users, current_user, registered, routes>>

\* reject_friend(request_id), POST, behind @login_required
reject_friend ==
  \E request_id \in UrlIds(Len(friendships)) :
    /\ lastReq' = DashReq("reject_friend", "POST", request_id)
    /\ IF ~is_authenticated
         THEN resp' = Unauthorized /\ UNCHANGED friendships
       ELSE IF request_id > Len(friendships)
         THEN resp' = NotFound404 /\ UNCHANGED friendships
       ELSE IF not_recipient(friendships[request_id])
         THEN /\ resp' = Jsonify("error", "Not authorized")
              /\ UNCHANGED friendships
       ELSE /\ friendships' = [friendships EXCEPT ![request_id].status = "rejected"]
            /\ resp' = Jsonify("success", "Friend request rejected")
    /\ UNCHANGED <<users, current_user, registered, routes>>

InitDashVars == friendships = <<>> /\ routes = {}

\* The dashboard's tables are empty and two users have registered.
InitDashWeb ==
  /\ users = DashUsers
  /\ current_user = 0
  /\ resp = Redirect("login", FlashCreated)
  /\ lastReq = Req("register", "POST", "a@x.com", "alice", 2, 2)
  /\ registered = <<1, 2>>

NextFriends ==
  \/ LoginPost /\ UNCHANGED <<masterVars, scriptVars, cipherVars, runVars, storeVars, dashVars>>
  \/ Logout /\ UNCHANGED <<masterVars, scriptVars, cipherVars, runVars, storeVars, dashVars>>
  \/ add_friend /\ UNCHANGED <<masterVars, scriptVars, cipherVars, runVars, storeVars>>
  \/ accept_friend /\ UNCHANGED <<masterVars, scriptVars, cipherVars, runVars, storeVars>>
  \/ reject_friend /\ UNCHANGED <<masterVars, scriptVars, cipherVars, runVars, storeVars>>

\* ---- routes
MaxRouteId == 2

\* What the form fields of add_route and edit_route may carry. Of the fields
\* the handlers copy into the row, name stands for those taken as text and
\* attempts for those passed through int().
RouteNames == {"slab", "roof"}
AttemptsTexts == {"1", "2", "many"}
RouteForms == [name : RouteNames, attempts : AttemptsTexts]

\* int(text): the number, where the text is one.
IsInt(text) == text \in {"1", "2"}
ParseInt(text) == IF text = "1" THEN 1 ELSE 2

RouteReq(handler, method, arg, form) ==
  [handler |-> handler, method |-> method, arg |-> arg, form |-> form]
NoForm == [name |-> "", attempts |-> ""]

RenderRoute(template, route) ==
  [kind |-> "render", target |-> template, flash |-> "", route |-> route]
\* int() raising ValueError under the handler: the request ends in a 500 and
\* the session's changes are dropped with it.
ServerError500 == [kind |-> "abort", status |-> 500]

FlashNoView   == "You do not have permission to view this route."
FlashNoEdit   == "You do not have permission to edit this route."
FlashNoDelete == "You do not have permission to delete this route."

\* Route.query.get_or_404(route_id), where the row exists.
RouteById(route_id) == CHOOSE r \in routes : r.id = route_id

\* An ownership check that passes everyone.
not_owner_unchecked(route) == FALSE

\* view_route, edit_route, delete_route: route.user_id != current_user.id
not_owner(route) == route.user_id # current_user

\* add_route(), behind @login_required
add_route ==
  \E method \in {"GET", "POST"}, form \in RouteForms :
    /\ lastReq' = RouteReq("add_route", method, 0,
                           IF method = "POST" THEN form ELSE NoForm)
    /\ IF ~is_authenticated
         THEN resp' = Unauthorized /\ UNCHANGED routes
       ELSE IF method = "GET"
         THEN resp' = Render("add_route.html", "") /\ UNCHANGED routes
       ELSE IF ~IsInt(form.attempts)
         THEN resp' = ServerError500 /\ UNCHANGED routes
       ELSE /\ NextId(routes) <= MaxRouteId
            /\ routes' = routes \cup
                 {[id |-> NextId(routes), user_id |-> current_user,
                   name |-> form.name, attempts |-> ParseInt(form.attempts)]}
            /\ resp' = Redirect("logbook", "Route added successfully!")
    /\ UNCHANGED <<users, current_user, registered, friendships>>

\* view_route(route_id), behind @login_required
view_route ==
  \E route_id \in UrlIds(MaxRouteId) :
    /\ lastReq' = RouteReq("view_route", "GET", route_id, NoForm)
    /\ resp' = IF ~is_authenticated THEN Unauthorized
               ELSE IF route_id \notin RowIds(routes) THEN NotFound404
               ELSE IF not_owner(RouteById(route_id))
                 THEN Redirect("logbook", FlashNoView)
               ELSE RenderRoute("view_route.html", RouteById(route_id))
    /\ UNCHANGED <<users, current_user, registered, friendships, routes>>

\* edit_route(route_id), behind @login_required
edit_route ==
  \E route_id \in UrlIds(MaxRouteId), method \in {"GET", "POST"},
     form \in RouteForms :
    /\ lastReq' = RouteReq("edit_route", method, route_id,
                           IF method = "POST" THEN form ELSE NoForm)
    /\ IF ~is_authenticated
         THEN resp' = Unauthorized /\ UNCHANGED routes
       ELSE IF route_id \notin RowIds(routes)
         THEN resp' = NotFound404 /\ UNCHANGED routes
       ELSE IF not_owner(RouteById(route_id))
         THEN resp' = Redirect("logbook", FlashNoEdit) /\ UNCHANGED routes
       ELSE IF method = "GET"
         THEN /\ resp' = RenderRoute("edit_route.html", RouteById(route_id))
              /\ UNCHANGED routes
       ELSE IF ~IsInt(form.attempts)
         THEN resp' = ServerError500 /\ UNCHANGED routes
       ELSE /\ routes' = (routes \ {RouteById(route_id)}) \cup
                 {[RouteById(route_id) EXCEPT
                     !.name = form.name,
                     !.attempts = ParseInt(form.attempts)]}
            /\ resp' = Redirect("view_route", "Route updated successfully!")
    /\ UNCHANGED <<users, current_user, registered, friendships>>

\* delete_route(route_id), POST, behind @login_required
delete_route ==
  \E route_id \in UrlIds(MaxRouteId) :
    /\ lastReq' = RouteReq("delete_route", "POST", route_id, NoForm)
    /\ IF ~is_authenticated
         THEN resp' = Unauthorized /\ UNCHANGED routes
       ELSE IF route_id \notin RowIds(routes)
         THEN resp' = NotFound404 /\ UNCHANGED routes
       ELSE IF not_owner(RouteById(route_id))
         THEN resp' = Redirect("logbook", FlashNoDelete) /\ UNCHANGED routes
       ELSE /\ routes' = routes \ {RouteById(route_id)}
            /\ resp' = Redirect("logbook", "Route deleted successfully!")
    /\ UNCHANGED <<users, current_user, registered, friendships>>

NextRoutes ==
  \/ LoginPost /\ UNCHANGED <<masterVars, scriptVars, cipherVars, runVars, storeVars, dashVars>>
  \/ Logout /\ UNCHANGED <<masterVars, scriptVars, cipherVars, runVars, storeVars, dashVars>>
  \/ add_route /\ UNCHANGED <<masterVars, scriptVars, cipherVars, runVars, storeVars>>
  \/ view_route /\ UNCHANGED <<masterVars, scriptVars, cipherVars, runVars, storeVars>>
  \/ edit_route /\ UNCHANGED <<masterVars, scriptVars, cipherVars, runVars, storeVars>>
  \/ delete_route /\ UNCHANGED <<masterVars, scriptVars, cipherVars, runVars, storeVars>>

\* ------------------------------------------------------------ specifications
\* The idle values of a program's variables under another program's
\* specification.
IdleWeb == InitWebVars
IdleMaster == InitMasterVars
IdleScript == InitScriptVars
IdleCipher ==
  /\ cKey = NoValue
  /\ cMsg = NoValue
  /\ cToken = NoValue
  /\ cTampered = NoValue
  /\ cOut = NotOpened

IdleRuns == earlier = NoValue
IdleStore == InitStoreVars
IdleDash == InitDashVars

InitWeb == InitWebVars /\ IdleMaster /\ IdleScript /\ IdleCipher /\ IdleRuns /\ IdleStore /\ IdleDash
InitMaster == IdleWeb /\ InitMasterVars /\ IdleScript /\ IdleCipher /\ IdleRuns /\ IdleStore /\ IdleDash
InitScript == IdleWeb /\ IdleMaster /\ InitScriptVars /\ IdleCipher /\ IdleRuns /\ IdleStore /\ IdleDash
InitCipher == IdleWeb /\ IdleMaster /\ IdleScript /\ InitCipherVars /\ IdleRuns /\ IdleStore /\ IdleDash

SpecWeb == InitWeb /\ [][NextWeb]_vars
SpecMaster == InitMaster /\ [][NextMaster]_vars
SpecScript == InitScript /\ [][NextScript]_vars
SpecCipher == InitCipher /\ [][NextCipher]_vars
\* gurt2.py run any number of times.
SpecRuns == InitScript /\ [][NextRuns]_vars

\* gurt.py, the dashboard of two registered users: the friendship handlers.
InitDash ==
  /\ InitDashWeb /\ InitDashVars
  /\ IdleMaster /\ IdleScript /\ IdleCipher /\ IdleRuns /\ IdleStore
SpecFriends == InitDash /\ [][NextFriends]_vars

\* gurt.py, the route handlers, for the same two users.
SpecRoutes == InitDash /\ [][NextRoutes]_vars

\* The passwords table.
InitStore == IdleWeb /\ IdleMaster /\ IdleScript /\ IdleCipher /\ IdleRuns /\ InitStoreVars /\ IdleDash
SpecStore == InitStore /\ [][NextStore]_vars

Init == InitWeb
Next == NextWeb
Spec == SpecWeb


\* ------------------------------------------------------------------ claims

\* C4: the session holds a key only while Unlocked: every transition out of
\* Unlocked, teardown included, erases the key and leaves no copy of it in
\* another variable. In gurt2.py the session is the module's own state and
\* teardown is the end of the script: once the script has ended, neither key
\* nor the Fernet object f built from it holds the key.
C4_KeyErasedAtTeardown ==
  pc = "done" => key = NoValue /\ f = NoValue

\* The login request of the step just taken, made by an anonymous client.
AnonymousLoginPost ==
  /\ lastReq'.handler = "login"
  /\ lastReq'.method = "POST"
  /\ current_user = 0

\* The identities the lookup key of a login request names.
Named(req) == {u \in Rows(users) : u.username = req.username \/ u.email = req.username}

\* C5: verification with a wrong passphrase always fails. A login that names a
\* registered identity and supplies a password other than the one it was
\* registered with never authenticates the client as that identity, and when
\* the password is wrong for every identity the key names, the client stays
\* anonymous and is answered 'Invalid username or password'.
C5_WrongPassphraseFails ==
  [][AnonymousLoginPost =>
       /\ \A u \in Named(lastReq') :
            registered[u.id] # lastReq'.password => current_user' # u.id
       /\ (\A u \in Named(lastReq') : registered[u.id] # lastReq'.password)
            => /\ current_user' = 0
               /\ resp' = Render("login.html", FlashInvalid)]_vars

\* A login with a wrong password for an identity that exists has been refused.
C5_Witness ==
  /\ lastReq.handler = "login" /\ lastReq.method = "POST"
  /\ current_user = 0
  /\ resp = Render("login.html", FlashInvalid)
  /\ \E u \in Named(lastReq) : registered[u.id] # lastReq.password

\* C6: the caller sees the same failure whether the lookup key names no
\* identity or names one with another password. After every refused login the
\* response is the one 'Invalid username or password' page, and in every state
\* the answer login computes for an unknown user equals the answer it computes
\* for each stored user with each wrong password.
C6_UniformAuthFailure ==
  /\ (lastReq.handler = "login" /\ lastReq.method = "POST" /\ current_user = 0)
       => resp = Render("login.html", FlashInvalid)
  /\ \A u \in Rows(users), pw \in Passwords, next_page \in NextPages :
       ~check_password(u, pw) =>
         LoginOutcome(u, pw, next_page) = LoginOutcome(NoUser, pw, next_page)

\* A login whose key names no stored identity has been refused, in a state
\* where an identity with another name is stored.
C6_Witness ==
  /\ lastReq.handler = "login" /\ lastReq.method = "POST"
  /\ current_user = 0
  /\ users # <<>>
  /\ Named(lastReq) = {}
  /\ resp = Render("login.html", FlashInvalid)

\* The run of write() in the step just taken repeats the username or the
\* email of a row already in the master table.
DuplicateWrite ==
  /\ writeResult'.program = "write_db"
  /\ \E m \in Rows(master) :
       m.username = writeResult'.username \/ m.email = writeResult'.email

\* No two rows of the master table share a username or an email.
MasterUnique ==
  \A i, j \in 1..Len(master) :
    i # j => /\ master[i].username # master[j].username
             /\ master[i].email # master[j].email

\* C7: registering a username or an email that a persisted identity already
\* has fails (write's commit raises IntegrityError) and leaves the persisted
\* identities as they were; so no two persisted identities ever share a
\* username or an email.
C7_DuplicateRefused ==
  /\ [][DuplicateWrite => /\ writeResult'.outcome = "IntegrityError"
                          /\ master' = master]_vars
  /\ []MasterUnique

\* A run of write() has been refused with rows in the table.
C7_Witness ==
  /\ writeResult.program = "write_db"
  /\ writeResult.outcome = "IntegrityError"
  /\ Len(master) >= 1
  /\ \E m \in Rows(master) : m.email = writeResult.email /\ m.username # writeResult.username

\* The same for gurt.py's register: for an anonymous client whose
\* confirmation matches, a username or an email already in the user table is
\* answered 'Username or email already exists' and the table is unchanged.
RegisterRefusesDuplicates ==
  \A username \in Idents, email \in Idents, pw \in Passwords, s \in Salts :
    user_exists(username, email) =>
      RegisterOutcome(username, email, pw, pw, s)
        = [users |-> users, resp |-> Render("register.html", FlashExists)]

UsersUnique ==
  \A i, j \in 1..Len(users) :
    i # j => /\ users[i].username # users[j].username
             /\ users[i].email # users[j].email

\* C9: a token whose ciphertext or tag was changed after sealing fails to
\* open, under the sealing key and under every other key, and no plaintext is
\* returned.
C9_TamperDetected ==
  (cOut.opened /\ (cTampered.ciphertext # cToken.ciphertext
                     \/ cTampered.hmac # cToken.hmac))
    => cOut.result = InvalidToken

\* A token whose ciphertext was changed to one that deciphers, under the
\* sealing key, to a validly padded block has been refused under that key.
C9_Witness ==
  /\ cOut.opened /\ cOut.key = cKey
  /\ cTampered.ciphertext # cToken.ciphertext
  /\ cTampered.hmac = cToken.hmac
  /\ cTampered.iv = cToken.iv
  /\ PaddingOk(AesCbcDecrypt(Fernet(cKey).encryption_key, cTampered.iv,
                             cTampered.ciphertext))
  /\ cOut.result = InvalidToken


\* C11: the key derived again at a later unlock from the same passphrase
\* equals the key derived before, and what was sealed before opens later. In
\* gurt2.py an unlock is a run of the script: in a run that typed the password
\* of the run before it, the key is the key of that run, and its Fernet object
\* opens the token that run sealed.
C11_SameKeyInLaterRun ==
  (earlier # NoValue /\ f # NoValue /\ master_password = earlier.master_password)
    => /\ key = earlier.key
       /\ FernetDecrypt(f, earlier.token) = [plaintext |-> SecretMessage]

\* C12: what is persisted to verify the master passphrase is the output of
\* the slow derivation, under a salt and at least 600,000 iterations, and never
\* one fast hash of the passphrase: the hash_pass of the row a committed write
\* added is a PBKDF2 output and is not hasher(password).
C12_VerifierIsSlowKdf ==
  writeResult.outcome = "committed" =>
    LET row == master[Len(master)]
    IN /\ \E s \in Salts : \E n \in 600000..600001 \cup {Iterations} :
            row.hash_pass \in {Pbkdf2Derive(Utf8(writeResult.password), s, n).first16,
                               Pbkdf2Derive(Utf8(writeResult.password), s, n).last16}
       /\ row.hash_pass # hasher(writeResult.password)

\* C14: the session key is in no printed output: no line the script printed
\* is the key.
C14_KeyNotPrinted ==
  \A i \in 1..Len(stdout) : stdout[i] # [bytes |-> key]

\* C15: an id given to an entry is never given to another entry, even after
\* the entry created last was deleted: a row that enters the table has an id
\* that was not given before.
C15_IdNeverReused ==
  [][\A r \in passwords' \ passwords : r.id \notin issued]_vars

\* C24: two identities registered with the same passphrase get different
\* persisted verification artifacts: no two rows of the master table have the
\* same hash_pass.
C24_ArtifactsDiffer ==
  \A i, j \in 1..Len(master) :
    i # j => master[i].hash_pass # master[j].hash_pass

FriendDecisions == {"accept_friend", "reject_friend"}

\* C27: the status of a friendship row changes only when the user who is its
\* friend_id calls accept_friend or reject_friend on it; such a call by any
\* other logged-in user is answered 'Not authorized' and leaves every
\* friendship row as it was.
C27_OnlyRecipientDecides ==
  [][/\ \A i \in 1..Len(friendships) :
          friendships'[i].status # friendships[i].status =>
            /\ lastReq'.handler \in FriendDecisions
            /\ lastReq'.arg = i
            /\ is_authenticated
            /\ friendships[i].friend_id = current_user
     /\ (/\ lastReq'.handler \in FriendDecisions
         /\ is_authenticated
         /\ lastReq'.arg <= Len(friendships)
         /\ friendships[lastReq'.arg].friend_id # current_user)
          => /\ resp' = Jsonify("error", "Not authorized")
             /\ friendships' = friendships]_vars

\* the sender of a pending request called accept_friend or reject_friend on it
\* and was refused.
C27_Witness ==
  /\ lastReq.handler \in FriendDecisions
  /\ resp = Jsonify("error", "Not authorized")
  /\ friendships[lastReq.arg].status = "pending"
  /\ friendships[lastReq.arg].user_id = current_user

\* C28: there is at most one friendship row for each ordered pair (user_id,
\* friend_id), and no row has user_id equal to friend_id.
C28_OneRowPerPair ==
  /\ \A i, j \in 1..Len(friendships) :
       (/\ friendships[i].user_id = friendships[j].user_id
        /\ friendships[i].friend_id = friendships[j].friend_id) => i = j
  /\ \A fr \in Rows(friendships) : fr.user_id # fr.friend_id

RouteWrites == {"edit_route", "delete_route"}

\* C29: a route row is modified or deleted only by a request of the logged-in
\* user whose id is the row's user_id: a row leaves the table or changes only
\* in an edit_route or delete_route on its id by its owner, and view_route
\* renders a route only to its owner.
C29_OnlyOwnerTouchesRoute ==
  [][/\ \A r \in routes :
          r \notin routes' =>
            /\ lastReq'.handler \in RouteWrites
            /\ lastReq'.arg = r.id
            /\ is_authenticated
            /\ r.user_id = current_user
     /\ (lastReq'.handler = "view_route" /\ resp'.kind = "render")
          => /\ is_authenticated
             /\ resp'.route.user_id = current_user]_vars

\* a logged-in user asked to edit or delete a route of another user and was
\* sent back to the logbook.
C29_Witness ==
  /\ lastReq.handler \in RouteWrites
  /\ resp \in {Redirect("logbook", FlashNoEdit), Redirect("logbook", FlashNoDelete)}
  /\ \E r \in routes : r.id = lastReq.arg /\ r.user_id # current_user


====
